---------------------------- MODULE Spec2Model ----------------------------
(***************************************************************************)
(* The T2S Courses catalog.                                                *)
(*                                                                         *)
(* Backend (routes/courses.js behind app.use('/api/courses', ...)): the    *)
(* module-level array `courses`, loaded once by require() from             *)
(* data/courses.json, and the two synchronous GET handlers of the router.  *)
(* Node runs each handler to completion, so a handler is one atomic step;  *)
(* what interleaves is the order in which the requests of different        *)
(* callers arrive and are handled.                                         *)
(*                                                                         *)
(* Frontend (App.js): the `courses` state of the App component and the     *)
(* promise chain started by the mount effect.                              *)
(*                                                                         *)
(* JavaScript strings that are parsed (the :id path parameter) are         *)
(* sequences of one-character strings; other strings are TLA+ strings.     *)
(***************************************************************************)
EXTENDS Integers, Sequences, FiniteSets

VARIABLES
    dataset,      \* content of data/courses.json, the static resource
    courses,      \* const courses = require('../data/courses.json')
    pc,           \* per caller: "idle", "inflight" (request not yet handled), "answered"
    req,          \* per caller: the path below /api/courses of its current request
    out,          \* per caller: the responses written on res for the current request
    overlap,      \* per caller: its request was in flight together with another one
    appPc,        \* App: position in the mount effect's promise chain
    appCourses,   \* App: the `courses` state of useState
    appBody,      \* App: the body of the fetched Response
    appErrors,    \* App: number of console.error calls
    appFetches    \* App: number of fetch calls

backendVars == <<dataset, courses, pc, req, out, overlap>>
appVars == <<appPc, appCourses, appBody, appErrors, appFetches>>
vars == <<dataset, courses, pc, req, out, overlap,
          appPc, appCourses, appBody, appErrors, appFetches>>

---------------------------------------------------------------------------
(* Bounds *)

\* Largest number of records in data/courses.json.
MaxCourses == 2

\* Number of concurrent callers of the API.
NumClients == 2

Clients == 1..NumClients

---------------------------------------------------------------------------
(* The dataset: data/courses.json is not part of the sources at hand; its  *)
(* shape is the Course of the specification: a unique positive integer id  *)
(* and a title.                                                            *)

Catalog ==
    { [id |-> 1,  title |-> "Intro to Cloud"],
      [id |-> 2,  title |-> "Terraform Basics"],
      [id |-> 10, title |-> "ECS Deployments"] }

UniqueIds(cs) ==
    \A i, j \in 1..Len(cs) : cs[i].id = cs[j].id => i = j

Datasets ==
    { cs \in UNION { [1..n -> Catalog] : n \in 0..MaxCourses } : UniqueIds(cs) }

---------------------------------------------------------------------------
(* JavaScript primitives used by the handlers *)

DecDigits == <<"0", "1", "2", "3", "4", "5", "6", "7", "8", "9">>

\* A JavaScript Number that is NaN or an integer.
NaN == [nan |-> TRUE, val |-> 0]
Num(n) == [nan |-> FALSE, val |-> n]

\* Number.prototype.toString for a non-negative integer: its decimal digits.
RECURSIVE ToString(_)
ToString(n) ==
    IF n < 10 THEN <<DecDigits[n + 1]>>
    ELSE ToString(n \div 10) \o <<DecDigits[(n % 10) + 1]>>

\* The value of character ch as a digit, -1 when it is none (hex letters in
\* lower case only: the inputs below use no upper case).
DigitVal(ch) ==
    CASE ch = "0" -> 0 [] ch = "1" -> 1 [] ch = "2" -> 2 [] ch = "3" -> 3
      [] ch = "4" -> 4 [] ch = "5" -> 5 [] ch = "6" -> 6 [] ch = "7" -> 7
      [] ch = "8" -> 8 [] ch = "9" -> 9 [] ch = "a" -> 10 [] ch = "b" -> 11
      [] ch = "c" -> 12 [] ch = "d" -> 13 [] ch = "e" -> 14 [] ch = "f" -> 15
      [] OTHER -> -1

IsRadixDigit(ch, radix) == DigitVal(ch) >= 0 /\ DigitVal(ch) < radix

WhiteSpace == {" "}

\* parseInt step 2: strip leading white space.
RECURSIVE TrimStart(_)
TrimStart(s) ==
    IF s # <<>> /\ Head(s) \in WhiteSpace THEN TrimStart(Tail(s)) ELSE s

\* parseInt step 8-9: the longest prefix of s made of radix digits.
RECURSIVE DigitPrefix(_, _)
DigitPrefix(s, radix) ==
    IF s # <<>> /\ IsRadixDigit(Head(s), radix)
    THEN <<Head(s)>> \o DigitPrefix(Tail(s), radix)
    ELSE <<>>

\* parseInt step 11: the integer the digits z denote in the radix.
RECURSIVE DigitsValue(_, _, _)
DigitsValue(z, radix, acc) ==
    IF z = <<>> THEN acc
    ELSE DigitsValue(Tail(z), radix, acc * radix + DigitVal(Head(z)))


\* parseInt steps 10-12: NaN for an empty digit prefix z, else its value.
DigitsToNumber(z, radix) ==
    IF z = <<>> THEN NaN ELSE Num(DigitsValue(z, radix, 0))

\* parseInt steps 5-9 on the unsigned rest s: "0x" selects radix 16 and is
\* skipped, otherwise the radix is 10 ("0X" does the same in JavaScript; the
\* inputs below use no upper case).
ParseUnsigned(s) ==
    IF Len(s) >= 2 /\ s[1] = "0" /\ s[2] = "x"
    THEN DigitsToNumber(DigitPrefix(Tail(Tail(s)), 16), 16)
    ELSE DigitsToNumber(DigitPrefix(s, 10), 10)

Negate(p) == IF p.nan THEN NaN ELSE Num(-p.val)

\* parseInt steps 3-4 on the trimmed string s: read and drop a sign.
ParseSigned(s) ==
    IF s = <<>> THEN NaN
    ELSE IF Head(s) = "-" THEN Negate(ParseUnsigned(Tail(s)))
    ELSE IF Head(s) = "+" THEN ParseUnsigned(Tail(s))
    ELSE ParseUnsigned(s)

\* parseInt(string) with no radix argument (ECMAScript 19.2.5): leading white
\* space is skipped, a sign is read, "0x" selects radix 16, then the longest
\* digit prefix is converted; NaN when that prefix is empty.
ParseInt(string) == ParseSigned(TrimStart(string))

\* c.id === p for a Number c.id and the result p of parseInt: p must be the
\* number n itself; NaN equals nothing.
StrictEquals(n, p) == p = Num(n)

\* Mutant of Find: the parsed identifier used as an array index,
\* courses[parseInt(id)], instead of being compared with the ids.
FindByIndex(cs, id) ==
    LET p == ParseInt(id)
    IN  IF ~p.nan /\ p.val >= 0 /\ p.val < Len(cs) THEN <<cs[p.val + 1]>> ELSE <<>>

\* Array.prototype.find: the first element satisfying the predicate, else
\* undefined.  The result is <<c>> for element c and <<>> for undefined.
RECURSIVE Find(_, _)
Find(cs, id) ==
    IF cs = <<>> THEN <<>>
    ELSE IF StrictEquals(Head(cs).id, ParseInt(id)) THEN <<Head(cs)>>
    ELSE Find(Tail(cs), id)

\* if (course): undefined is falsy, an object is truthy.
Truthy(course) == course # <<>>

---------------------------------------------------------------------------
(* Responses.  res.json(v) writes one response whose body is the JSON text *)
(* of v; the body is kept as the value v itself, tagged with its JSON      *)
(* shape: an array of course objects, one course object, or the error      *)
(* object.                                                                 *)

\* Express's default statusCode, used when res.status() is not called.
StatusOK == 200
StatusNotFound == 404

NotFoundMessage == "Course not found"

JsonArray(cs)  == [kind |-> "array",  items |-> cs,    error |-> ""]
JsonCourse(c)  == [kind |-> "course", items |-> <<c>>, error |-> ""]
JsonError(msg) == [kind |-> "error",  items |-> <<>>,  error |-> msg]

Response(status, body) == [status |-> status, body |-> body]

\* Mutant of NotFoundResponse: res.status(404) left out.
NotFoundWithDefaultStatus == Response(StatusOK, JsonError(NotFoundMessage))

\* res.status(404).json({ error: 'Course not found' })
NotFoundResponse == Response(StatusNotFound, JsonError(NotFoundMessage))

\* Mutant of ListResponses: res.json(courses.slice(1)).
ListResponsesSliced(cs) ==
    <<Response(StatusOK, JsonArray(IF cs = <<>> THEN cs ELSE Tail(cs)))>>

\* router.get('/'): res.json(courses)
ListResponses(cs) == <<Response(StatusOK, JsonArray(cs))>>

\* Mutant of GetByIdResponses: an identifier that does not parse is rejected
\* with a second kind of error, 400.
GetByIdRejectsUnparsable(cs, id) ==
    LET course == Find(cs, id)
    IN  IF ParseInt(id).nan THEN <<Response(400, JsonError("Invalid id"))>>
        ELSE IF Truthy(course)
        THEN <<Response(StatusOK, JsonCourse(course[1]))>>
        ELSE <<NotFoundResponse>>

\* Mutant of GetByIdResponses: the else branch left out, so that nothing is
\* written when no record is found.
GetByIdWithoutElse(cs, id) ==
    LET course == Find(cs, id)
    IN  IF Truthy(course)
        THEN <<Response(StatusOK, JsonCourse(course[1]))>>
        ELSE <<>>

\* router.get('/:id'): the responses the handler writes for params.id = id.
GetByIdResponses(cs, id) ==
    LET course == Find(cs, id)
    IN  IF Truthy(course)
        THEN <<Response(StatusOK, JsonCourse(course[1]))>>
        ELSE <<NotFoundResponse>>

---------------------------------------------------------------------------
(* Requests: the path below the mount point /api/courses.  The empty path  *)
(* matches router.get('/'), any other single segment matches               *)
(* router.get('/:id') with params.id the (URL-decoded) segment.            *)

NumericIds == {1, 2, 10, 99}

OtherIdInputs ==
    { <<"a", "b", "c">>,        \* no digit at all
      <<"2", "a", "b", "c">>,   \* digits followed by letters
      <<" ", "2">>,             \* leading white space (%202)
      <<"-", "1">>,             \* a sign
      <<"0", "x", "a">>,        \* hexadecimal prefix
      <<"1", "e", "1">> }       \* exponent notation

IdInputs == { ToString(n) : n \in NumericIds } \cup OtherIdInputs

ListPath == <<>>

Paths == {ListPath} \cup IdInputs

Route(path) == IF path = ListPath THEN "list" ELSE "getById"

\* What the router answers to `path` when the collection is cs.
Serve(cs, path) ==
    IF Route(path) = "list" THEN ListResponses(cs) ELSE GetByIdResponses(cs, path)

---------------------------------------------------------------------------
(* Backend state machine *)

OthersInFlight(c) == \E d \in Clients \ {c} : pc[d] = "inflight"

BackendInit ==
    /\ dataset \in Datasets
    /\ courses = dataset
    /\ pc = [c \in Clients |-> "idle"]
    /\ req = [c \in Clients |-> ListPath]
    /\ out = [c \in Clients |-> <<>>]
    /\ overlap = [c \in Clients |-> FALSE]

\* A caller sends GET /api/courses<path>; the request is in flight until
\* its handler runs.
SendRequest(c, path) ==
    /\ pc[c] \in {"idle", "answered"}
    /\ pc' = [pc EXCEPT ![c] = "inflight"]
    /\ req' = [req EXCEPT ![c] = path]
    /\ out' = [out EXCEPT ![c] = <<>>]
    /\ overlap' = [d \in Clients |->
                      IF d = c THEN OthersInFlight(c)
                      ELSE overlap[d] \/ pc[d] = "inflight"]
    /\ UNCHANGED <<dataset, courses>>
    /\ UNCHANGED appVars

Reverse(cs) == [i \in 1..Len(cs) |-> cs[Len(cs) + 1 - i]]

\* Mutant of ListHandler: res.json(courses.reverse()), which reverses the
\* shared array in place.
ListHandlerReversing(c) ==
    /\ pc[c] = "inflight"
    /\ Route(req[c]) = "list"
    /\ courses' = Reverse(courses)
    /\ out' = [out EXCEPT ![c] = ListResponses(Reverse(courses))]
    /\ pc' = [pc EXCEPT ![c] = "answered"]
    /\ UNCHANGED <<dataset, req, overlap>>
    /\ UNCHANGED appVars

\* router.get('/', (req, res) => { res.json(courses); })
ListHandler(c) ==
    /\ pc[c] = "inflight"
    /\ Route(req[c]) = "list"
    /\ out' = [out EXCEPT ![c] = ListResponses(courses)]
    /\ pc' = [pc EXCEPT ![c] = "answered"]
    /\ UNCHANGED <<dataset, courses, req, overlap>>
    /\ UNCHANGED appVars

\* Mutant of GetByIdHandler: the record is taken out of the shared array
\* (splice) instead of being looked up (find).
GetByIdHandlerSplicing(c) ==
    /\ pc[c] = "inflight"
    /\ Route(req[c]) = "getById"
    /\ courses' = SelectSeq(courses, LAMBDA r : <<r>> # Find(courses, req[c]))
    /\ out' = [out EXCEPT ![c] = GetByIdResponses(courses, req[c])]
    /\ pc' = [pc EXCEPT ![c] = "answered"]
    /\ UNCHANGED <<dataset, req, overlap>>
    /\ UNCHANGED appVars

\* router.get('/:id', (req, res) => { const course = courses.find(...); ... })
GetByIdHandler(c) ==
    /\ pc[c] = "inflight"
    /\ Route(req[c]) = "getById"
    /\ out' = [out EXCEPT ![c] = GetByIdResponses(courses, req[c])]
    /\ pc' = [pc EXCEPT ![c] = "answered"]
    /\ UNCHANGED <<dataset, courses, req, overlap>>
    /\ UNCHANGED appVars

---------------------------------------------------------------------------
(* Frontend: function App() of App.js.  useState([]) gives the initial     *)
(* `courses`; the effect with the empty dependency list runs once after    *)
(* the mount and starts                                                    *)
(*   fetch(url).then(r => r.json()).then(d => setCourses(d)).catch(log)    *)
(* whose callbacks run one at a time as the promises settle.               *)

NoBody == [json |-> FALSE, data |-> JsonArray(<<>>)]

\* The bodies a fulfilled fetch of /api/courses can carry: the JSON the
\* list route sends, or a body that is not JSON (cut short, or written by
\* something in front of the service).
FetchedBodies == { [json |-> TRUE, data |-> ListResponses(courses)[1].body], NoBody }

\* const [courses, setCourses] = useState([]), effect not yet run.
AppIdle ==
    /\ appPc = "mounted"
    /\ appCourses = JsonArray(<<>>)
    /\ appBody = NoBody
    /\ appErrors = <<>>
    /\ appFetches = 0

\* useEffect(() => { fetch('http://localhost:4000/api/courses') ... }, [])
Effect ==
    /\ appPc = "mounted"
    /\ appPc' = "fetching"
    /\ appFetches' = appFetches + 1
    /\ UNCHANGED <<appCourses, appBody, appErrors>>
    /\ UNCHANGED backendVars

\* The fetch promise fulfils with a Response.
FetchFulfil(body) ==
    /\ appPc = "fetching"
    /\ appPc' = "fulfilled"
    /\ appBody' = body
    /\ UNCHANGED <<appCourses, appErrors, appFetches>>
    /\ UNCHANGED backendVars

\* The fetch promise rejects (network failure): control passes to .catch.
FetchReject ==
    /\ appPc = "fetching"
    /\ appPc' = "rejectedFetch"
    /\ UNCHANGED <<appCourses, appBody, appErrors, appFetches>>
    /\ UNCHANGED backendVars

\* .then((response) => response.json())
ThenJson ==
    /\ appPc = "fulfilled"
    /\ appPc' = "parsing"
    /\ UNCHANGED <<appCourses, appBody, appErrors, appFetches>>
    /\ UNCHANGED backendVars

\* response.json() resolves with the parsed body.
JsonResolve ==
    /\ appPc = "parsing"
    /\ appBody.json
    /\ appPc' = "parsed"
    /\ UNCHANGED <<appCourses, appBody, appErrors, appFetches>>
    /\ UNCHANGED backendVars

\* response.json() rejects: the body is not JSON.
JsonReject ==
    /\ appPc = "parsing"
    /\ ~appBody.json
    /\ appPc' = "rejectedJson"
    /\ UNCHANGED <<appCourses, appBody, appErrors, appFetches>>
    /\ UNCHANGED backendVars

\* .then((data) => setCourses(data))
SetCourses ==
    /\ appPc = "parsed"
    /\ appCourses' = appBody.data
    /\ appPc' = "loaded"
    /\ UNCHANGED <<appBody, appErrors, appFetches>>
    /\ UNCHANGED backendVars

\* Mutant of Catch: the error is logged and the fetch is started again.
CatchAndRetry ==
    /\ appPc \in {"rejectedFetch", "rejectedJson"}
    /\ appErrors' = Append(appErrors, appPc)
    /\ appPc' = "fetching"
    /\ appFetches' = appFetches + 1
    /\ UNCHANGED <<appCourses, appBody>>
    /\ UNCHANGED backendVars

\* .catch((error) => console.error('Error fetching courses:', error))
Catch ==
    /\ appPc \in {"rejectedFetch", "rejectedJson"}
    /\ appErrors' = Append(appErrors, appPc)
    /\ appPc' = "failed"
    /\ UNCHANGED <<appCourses, appBody, appFetches>>
    /\ UNCHANGED backendVars

---------------------------------------------------------------------------
(* Specifications *)

Init == BackendInit /\ AppIdle

Next ==
    \/ \E c \in Clients, path \in Paths : SendRequest(c, path)
    \/ \E c \in Clients : ListHandler(c)
    \/ \E c \in Clients : GetByIdHandler(c)

Spec == Init /\ [][Next]_vars

\* The handler the router runs for the request of caller c.
Handle(c) == ListHandler(c) \/ GetByIdHandler(c)

\* The two-record dataset of the specification's concrete scenario.
ScenarioDataset ==
    << [id |-> 1, title |-> "Intro to Cloud"],
       [id |-> 2, title |-> "Terraform Basics"] >>

FairInit == Init /\ dataset = ScenarioDataset

\* The requests of the fair specification: List, a stored id, an absent
\* id, an id that parses to no number, and a stored id followed by letters.
FairPaths ==
    { ListPath, <<"2">>, <<"9", "9">>, <<"a", "b", "c">>, <<"2", "a", "b", "c">> }

FairNext ==
    \/ \E c \in Clients, path \in FairPaths : SendRequest(c, path)
    \/ \E c \in Clients : Handle(c)

\* The event loop runs the handler of every request that has arrived.
FairSpec ==
    /\ FairInit
    /\ [][FairNext]_vars
    /\ \A c \in Clients : WF_vars(Handle(c))

AppNext ==
    \/ Effect
    \/ \E body \in FetchedBodies : FetchFulfil(body)
    \/ FetchReject
    \/ ThenJson
    \/ JsonResolve
    \/ JsonReject
    \/ SetCourses
    \/ Catch

AppSpec == Init /\ [][AppNext]_vars

---------------------------------------------------------------------------
(* Properties.  The expected responses are written out literally, apart    *)
(* from the definitions of the model.                                      *)

Answered(c) == pc[c] = "answered"

ExpectCourse(r) ==
    [status |-> 200, body |-> [kind |-> "course", items |-> <<r>>, error |-> ""]]

ExpectList(cs) ==
    [status |-> 200, body |-> [kind |-> "array", items |-> cs, error |-> ""]]

ExpectNotFound ==
    [status |-> 404,
     body |-> [kind |-> "error", items |-> <<>>, error |-> "Course not found"]]

\* The identifier denotes no record of cs: it does not parse to a number, or
\* it parses to a number that is the id of no record.
DenotesNoRecord(cs, id) ==
    LET p == ParseInt(id)
    IN  p.nan \/ \A i \in 1..Len(cs) : cs[i].id # p.val

\* The identifier is a numeral: a non-empty run of decimal digits.
IsNumeral(id) ==
    /\ id # <<>>
    /\ \A i \in 1..Len(id) : \E k \in 1..Len(DecDigits) : DecDigits[k] = id[i]

\* C1: for every record r of the collection, a GetByID request whose
\* identifier is r.id is answered with status 200 and exactly r as its body.
C1_GetByIdReturnsRecord ==
    \A c \in Clients : \A i \in 1..Len(courses) :
        (Answered(c) /\ req[c] = ToString(courses[i].id))
            => out[c] = <<ExpectCourse(courses[i])>>

\* C1 witness: the second record of a two-record collection, with a
\* two-digit id, has been fetched.
C1_Witness ==
    \E c \in Clients :
        /\ Answered(c)
        /\ Len(courses) = 2
        /\ courses[2].id = 10
        /\ req[c] = <<"1", "0">>
        /\ out[c] = <<ExpectCourse(courses[2])>>

\* C2: a GetByID request whose identifier is the id of no record of the
\* collection is answered 404 {"error": "Course not found"}, never a record.
C2_AbsentIdIsNotFound ==
    \A c \in Clients :
        (Answered(c) /\ Route(req[c]) = "getById" /\ DenotesNoRecord(courses, req[c]))
            => out[c] = <<ExpectNotFound>>

\* C2 witness: id 99 was asked of a non-empty collection and answered 404.
C2_Witness ==
    \E c \in Clients :
        /\ Answered(c)
        /\ Len(courses) = 2
        /\ req[c] = <<"9", "9">>
        /\ out[c] = <<ExpectNotFound>>

\* C3: a GetByID request whose identifier is malformed (not a numeral) is
\* answered 404 {"error": "Course not found"}, whatever the collection holds.
C3_MalformedIdIsNotFound ==
    \A c \in Clients :
        (Answered(c) /\ Route(req[c]) = "getById" /\ ~IsNumeral(req[c]))
            => out[c] = <<ExpectNotFound>>

\* C4: List is answered with status 200 and every record of the dataset
\* exactly once, in the order of the dataset, also for the empty dataset.
C4_ListReturnsDataset ==
    \A c \in Clients :
        (Answered(c) /\ req[c] = ListPath) =>
            /\ Len(out[c]) = 1
            /\ out[c][1].status = 200
            /\ out[c][1].body.kind = "array"
            /\ Len(out[c][1].body.items) = Len(dataset)
            /\ \A i \in 1..Len(dataset) : out[c][1].body.items[i] = dataset[i]

\* C4 witness: a two-record dataset has been listed.
C4_Witness ==
    \E c \in Clients :
        /\ Answered(c)
        /\ req[c] = ListPath
        /\ Len(dataset) = 2
        /\ out[c] = <<ExpectList(dataset)>>

\* C5: the collection equals the dataset as loaded and its ids are unique,
\* after any sequence of List and GetByID requests.
C5_CollectionNeverMutated ==
    /\ courses = dataset
    /\ UniqueIds(courses)

\* C5 witness: a List and a matching GetByID have both been served.
C5_Witness ==
    \E c, d \in Clients :
        /\ Answered(c) /\ req[c] = ListPath
        /\ Answered(d) /\ Route(req[d]) = "getById" /\ out[d][1].status = 200
        /\ Len(courses) = 2

\* C6: two answered calls of the same operation with the same input carry
\* the same output.
C6_Idempotent ==
    \A c, d \in Clients :
        (Answered(c) /\ Answered(d) /\ req[c] = req[d]) => out[c] = out[d]

\* C6 witness: two callers hold the answer to the same matching GetByID.
C6_Witness ==
    \E c, d \in Clients :
        /\ c # d
        /\ Answered(c) /\ Answered(d)
        /\ req[c] = req[d]
        /\ Route(req[c]) = "getById"
        /\ out[c][1].status = 200

\* C7: every request is answered as it would be if served alone on the
\* collection as loaded, whatever other requests are in flight.
C7_ServedAsAlone ==
    \A c \in Clients : Answered(c) => out[c] = Serve(dataset, req[c])

\* C7 witness: two requests that were in flight together, a List and a
\* matching GetByID, have both been answered.
C7_Witness ==
    \E c, d \in Clients :
        /\ Answered(c) /\ overlap[c] /\ req[c] = ListPath
        /\ Answered(d) /\ overlap[d] /\ Route(req[d]) = "getById"
        /\ out[d][1].status = 200

\* C8: every response is the 200 list, a 200 stored record, or the one 404
\* not-found response; List never errs; an absent id and an unparsable id
\* get the identical not-found response.
C8_OneErrorKind ==
    \A c \in Clients :
        Answered(c) =>
            /\ Len(out[c]) = 1
            /\ Route(req[c]) = "list" => out[c][1] = ExpectList(courses)
            /\ Route(req[c]) = "getById" =>
                \/ \E i \in 1..Len(courses) : out[c][1] = ExpectCourse(courses[i])
                \/ out[c][1] = ExpectNotFound
            /\ (Route(req[c]) = "getById" /\ DenotesNoRecord(courses, req[c]))
                => out[c][1] = ExpectNotFound

\* C8 witness: an absent numeric id and an unparsable id have both been
\* answered, with the same response.
C8_Witness ==
    \E c, d \in Clients :
        /\ Answered(c) /\ req[c] = <<"9", "9">>
        /\ Answered(d) /\ req[d] = <<"a", "b", "c">>
        /\ Len(courses) > 0
        /\ out[c] = out[d]

\* C9: every request that reaches its handler is eventually answered, with
\* exactly one response.
C9_AnsweredExactlyOnce ==
    \A c \in Clients :
        (pc[c] = "inflight") ~> (pc[c] = "answered" /\ Len(out[c]) = 1)

\* C9 witness: one request took the found branch and another the not-found
\* branch, each with a single response.
C9_Witness ==
    \E c, d \in Clients :
        /\ Answered(c) /\ out[c] = <<ExpectNotFound>>
        /\ Answered(d) /\ Route(req[d]) = "getById"
        /\ Len(out[d]) = 1 /\ out[d][1].status = 200

\* C10: App's courses is the empty list until the one fetch of the mount
\* effect has been parsed; it is only ever set to the parsed body; on a
\* failed fetch or parse the error is logged once, courses stays empty and
\* no second fetch is made.
C10_AppCourses ==
    /\ appFetches <= 1
    /\ appPc # "loaded" => appCourses = [kind |-> "array", items |-> <<>>, error |-> ""]
    /\ appPc = "loaded" => (appBody.json /\ appCourses = ExpectList(courses).body)
    /\ appPc = "failed" => (Len(appErrors) = 1 /\ appFetches = 1)
    /\ appPc # "failed" => appErrors = <<>>

\* C10 witness: the parse of the fetched body failed and was logged.
C10_Witness ==
    /\ appPc = "failed"
    /\ appErrors = <<"rejectedJson">>
    /\ Len(courses) = 2

=============================================================================
